---- MODULE Spec2Model ----
(***************************************************************************)
(* Hydration-reminder backend (src/api.js).  The source file holds four    *)
(* deployments of one endpoint, called variants 1..4 here:                 *)
(*   1  lines   1-168  rule based, profile taken from the request payload  *)
(*   2  lines 170-358  rule based, profile taken from the environment      *)
(*   3  lines 360-616  AI planner with a rule-based fallback plan          *)
(*   4  lines 618-831  AI planner with a rule-based fallback plan          *)
(*                                                                         *)
(* Conventions of the model                                                *)
(*   - A Date is an integer number of minutes of local time; requests      *)
(*     arrive on whole minutes.  Arithmetic on fractions is exact where    *)
(*     the code uses IEEE doubles.                                         *)
(*   - null / undefined is the empty tuple <<>>, a present value v is <<v>>.*)
(*   - weight_kg is carried in tenths of a kilogram so that Math.round in  *)
(*     the goal calculators does something.                                *)
(*   - Strings are TLA+ strings; includes / toLowerCase / the regular      *)
(*     expressions are computed character by character.                    *)
(***************************************************************************)
EXTENDS Integers, Sequences, FiniteSets, TLC

VARIABLES clock, cfg, lastNotified, reqs, started, last, sends, fn

vars == <<clock, cfg, lastNotified, reqs, started, last, sends, fn>>

(***************************************************************************)
(* Optional values, numbers                                                *)
(***************************************************************************)
Null == <<>>

Some(v) == <<v>>

IsNull(o) == o = <<>>

Val(o) == o[1]

Min(a, b) == IF a <= b THEN a ELSE b

Max(a, b) == IF a >= b THEN a ELSE b

\* Math.round(n / d) for d > 0: the nearest integer, halves towards +infinity.
RoundDiv(n, d) == (2 * n + d) \div (2 * d)

\* const clamp = (v, lo, hi) => Math.max(lo, Math.min(v, hi));
clamp(v, lo, hi) == Max(lo, Min(v, hi))

\* <<q, r>> with n * g = q * d + r and 0 <= r < d, computed bit by bit so
\* that no intermediate value leaves the 32-bit range of the checker.
RECURSIVE MulDiv(_, _, _)
MulDiv(n, g, d) ==
    IF g = 0 THEN <<0, 0>>
    ELSE LET h == MulDiv(n, g \div 2, d)
             t == 2 * h[2] + (g % 2) * n
         IN  <<2 * h[1] + (t \div d), t % d>>

\* Math.round(g * n / d) for g, n >= 0 and d > 0.
RoundMulDiv(g, n, d) ==
    LET h == MulDiv(n, g, d) IN h[1] + (IF 2 * h[2] >= d THEN 1 ELSE 0)

(***************************************************************************)
(* Strings                                                                 *)
(***************************************************************************)
Upper == "ABCDEFGHIJKLMNOPQRSTUVWXYZ"

Lower == "abcdefghijklmnopqrstuvwxyz"

LowerChar(c) ==
    IF \E i \in 1..26 : SubSeq(Upper, i, i) = c
    THEN LET i == CHOOSE j \in 1..26 : SubSeq(Upper, j, j) = c
         IN  SubSeq(Lower, i, i)
    ELSE c

\* String.prototype.toLowerCase
RECURSIVE toLowerCase(_)
toLowerCase(s) ==
    IF Len(s) = 0 THEN ""
    ELSE LowerChar(SubSeq(s, 1, 1)) \o toLowerCase(SubSeq(s, 2, Len(s)))

\* String.prototype.includes
includes(t, w) ==
    \E i \in 1..(Len(t) - Len(w) + 1) : SubSeq(t, i, i + Len(w) - 1) = w

Digits == "0123456789"

IsDigit(c) == \E i \in 1..10 : SubSeq(Digits, i, i) = c

DigitVal(c) == (CHOOSE i \in 1..10 : SubSeq(Digits, i, i) = c) - 1

\* Number(s) for a string of one or two digits.
Number2(s) ==
    IF Len(s) = 1 THEN DigitVal(s)
    ELSE 10 * DigitVal(SubSeq(s, 1, 1)) + DigitVal(SubSeq(s, 2, 2))

(***************************************************************************)
(* Dates                                                                   *)
(***************************************************************************)
MinutesPerDay == 24 * 60

\* The local midnight before date t.
DayStart(t) == t - (t % MinutesPerDay)

\* Date.prototype.getHours
getHours(t) == (t % MinutesPerDay) \div 60

\* d.setHours(h, m, 0, 0): same calendar date, h hours m minutes (rolls over
\* for h > 23 or m > 59, as Date does).
setHours(t, h, m) == DayStart(t) + 60 * h + m

(***************************************************************************)
(* Variant 1: profile normaliser, goal calculator, pacing schedule         *)
(***************************************************************************)
\* The payload's profile when none is sent: computeContext's p = {}.
EmptyProfile ==
    [wake_time |-> Null, sleep_time |-> Null, weight_kg |-> Null,
     activity_level |-> Null, daily_activity_minutes |-> Null,
     medical_conditions |-> Null, clinician_limit_ml |-> Null,
     temp_c |-> Null, humidity_pct |-> Null]

\* /^\d{2}:\d{2}$/.test(s || '')
IsHHMM(s) ==
    /\ Len(s) = 5
    /\ SubSeq(s, 3, 3) = ":"
    /\ \A i \in {1, 2, 4, 5} : IsDigit(SubSeq(s, i, i))

\* computeContext's inner parseHM: a Date on now's calendar date, or null.
\* No clamping: "25:70" is 02:10 of the next day.
parseHM1(s, now) ==
    LET str == IF IsNull(s) THEN "" ELSE Val(s) IN
    IF IsHHMM(str)
    THEN Some(setHours(now, Number2(SubSeq(str, 1, 2)), Number2(SubSeq(str, 4, 5))))
    ELSE Null

\* Number(x) || d, for x a number or undefined.
NumberOr(x, d) == IF IsNull(x) \/ Val(x) = 0 THEN d ELSE Val(x)

\* computeContext(p, now), called with the handler's own Date object `now`.
\* `today` is the value of new Date() inside the call.  The result carries
\* the Date `now` as the call leaves it: now.setHours(7,0,0,0) changes the
\* caller's object when wake_time is absent or invalid.
computeContext(p, now, today) ==
    LET w     == parseHM1(p.wake_time, now)
        now1  == IF IsNull(w) THEN setHours(now, 7, 0) ELSE now
        wake  == IF IsNull(w) THEN now1 ELSE Val(w)
        s     == parseHM1(p.sleep_time, now1)
        sleep == IF IsNull(s) THEN setHours(today, 23, 0) ELSE Val(s)
    IN  [weight_kg |-> NumberOr(p.weight_kg, 600),
         activity_level |->
             IF IsNull(p.activity_level) \/ Val(p.activity_level) = ""
             THEN "Light" ELSE Val(p.activity_level),
         daily_activity_minutes |-> NumberOr(p.daily_activity_minutes, 30),
         medical_conditions |->
             IF IsNull(p.medical_conditions) THEN {} ELSE Val(p.medical_conditions),
         clinician_limit_ml |-> p.clinician_limit_ml,
         temp_c |-> p.temp_c,
         humidity_pct |-> p.humidity_pct,
         wake |-> wake, sleep |-> sleep, now |-> now1]

\* {Sedentary:0, Light:200, Moderate:400, Heavy:600}[activity_level] ?? 200
addPer(activity_level) ==
    CASE activity_level = "Sedentary" -> 0
      [] activity_level = "Light"     -> 200
      [] activity_level = "Moderate"  -> 400
      [] activity_level = "Heavy"     -> 600
      [] OTHER                        -> 200

blocks_floor(daily_minutes) == Max(0, daily_minutes \div 30)

\* Math.max(0, Math.round(daily_activity_minutes / 30))
blocks(daily_minutes) == Max(0, RoundDiv(daily_minutes, 30))

\* computeGoalMl(ctx), variant 1.
computeGoalMl1(ctx) ==
    LET g0 == RoundDiv(35 * ctx.weight_kg, 10)
        g1 == g0 + blocks(ctx.daily_activity_minutes) * addPer(ctx.activity_level)
        g2 == IF \/ (~IsNull(ctx.temp_c) /\ Val(ctx.temp_c) >= 30)
                 \/ (~IsNull(ctx.humidity_pct) /\ Val(ctx.humidity_pct) >= 70)
              THEN g1 + 300 ELSE g1
        hasCKD == "ckd" \in ctx.medical_conditions
        hasHF  == "hf" \in ctx.medical_conditions
        g3 == IF ~IsNull(ctx.clinician_limit_ml)
              THEN Min(g2, Val(ctx.clinician_limit_ml)) ELSE g2
        g4 == IF (hasCKD \/ hasHF) /\ IsNull(ctx.clinician_limit_ml)
              THEN Min(g3, 2000) ELSE g3
    IN  clamp(g4, 1200, 4000)

\* The share of the goal for the morning and the afternoon, in twentieths
\* (0.25 / 0.30 / 0.35 and 0.55 / 0.50 / 0.45); evening is the remainder.
morning(activity_level) ==
    IF activity_level = "Heavy" THEN 5
    ELSE IF activity_level = "Moderate" THEN 6 ELSE 7

afternoon(activity_level) ==
    IF activity_level = "Heavy" THEN 11
    ELSE IF activity_level = "Moderate" THEN 10 ELSE 9

\* The schedule closure: wake, sleep, the shares and durMs = max(1, sleep - wake).
Schedule(activity_level, wake, sleep) ==
    [wake |-> wake, sleep |-> sleep,
     morning |-> morning(activity_level),
     afternoon |-> afternoon(activity_level),
     evening |-> 20 - (morning(activity_level) + afternoon(activity_level)),
     durMs |-> Max(1, sleep - wake)]

\* computeSchedule(ctx), variant 1.
computeSchedule(ctx) == Schedule(ctx.activity_level, ctx.wake, ctx.sleep)

fractionAt_evening_restarts(s, now) ==
    LET x == now - s.wake
        d == s.durMs
    IN  IF now <= s.wake THEN [n |-> 0, k |-> 1]
        ELSE IF now >= s.sleep THEN [n |-> d, k |-> 1]
        ELSE IF 100 * x <= 33 * d THEN [n |-> 5 * x * s.morning, k |-> 33]
        ELSE IF 100 * x <= 80 * d
             THEN [n |-> 47 * d * s.morning + (100 * x - 33 * d) * s.afternoon,
                   k |-> 940]
        ELSE [n |-> (100 * x - 80 * d) * s.evening, k |-> 400]

\* fractionAt(now) of a schedule s.  The result [n, k] stands for the number
\* n / (k * s.durMs).  tMorningEnd = wake + 0.33 durMs and tAfternoonEnd =
\* wake + 0.80 durMs, so with x = now - wake:
\*   now <= tMorningEnd    iff 100 x <= 33 durMs
\*   (now - wake) / (tMorningEnd - wake) * morning
\*        = 5 x morning / (33 durMs)                     (morning in 1/20)
\*   morning + (now - tMorningEnd) / (tAfternoonEnd - tMorningEnd) * afternoon
\*        = (47 durMs morning + (100 x - 33 durMs) afternoon) / (940 durMs)
\*   morning + afternoon + (now - tAfternoonEnd) / (sleep - tAfternoonEnd) * evening
\*        = (20 durMs (morning + afternoon) + (100 x - 80 durMs) evening) / (400 durMs)
fractionAt(s, now) ==
    LET x == now - s.wake
        d == s.durMs
    IN  IF now <= s.wake THEN [n |-> 0, k |-> 1]
        ELSE IF now >= s.sleep THEN [n |-> d, k |-> 1]
        ELSE IF 100 * x <= 33 * d THEN [n |-> 5 * x * s.morning, k |-> 33]
        ELSE IF 100 * x <= 80 * d
             THEN [n |-> 47 * d * s.morning + (100 * x - 33 * d) * s.afternoon,
                   k |-> 940]
        ELSE [n |-> 20 * d * (s.morning + s.afternoon) + (100 * x - 80 * d) * s.evening,
              k |-> 400]

\* Order and equality of two fractions of one schedule (same durMs).
FracLeq(a, b) == a.n * b.k <= b.n * a.k

FracEq(a, b) == a.n * b.k = b.n * a.k

\* Math.round(goal_ml * sched.fractionAt(now))
targetMlNow(goal_ml, s, now) ==
    LET f == fractionAt(s, now) IN RoundMulDiv(goal_ml, f.n, f.k * s.durMs)

(***************************************************************************)
(* Variants 2-4: parseHM, goal calculator, schedule, activity normaliser,  *)
(* fallback plan, AI plan sanitiser                                        *)
(***************************************************************************)
\* /^(\d{1,2}):(\d{2})$/.exec(s || ''): the position of the colon, 0 if the
\* string does not match.
ColonAt(s) ==
    IF /\ Len(s) = 4 /\ SubSeq(s, 2, 2) = ":"
       /\ \A i \in {1, 3, 4} : IsDigit(SubSeq(s, i, i)) THEN 2
    ELSE IF IsHHMM(s) THEN 3
    ELSE 0

\* parseHM(s, defH, defM) of variants 2-4; `today` is its new Date().
parseHM(s, defH, defM, today) ==
    LET c == ColonAt(s) IN
    IF c = 0 THEN setHours(today, defH, defM)
    ELSE setHours(today,
                  clamp(Number2(SubSeq(s, 1, c - 1)), 0, 23),
                  clamp(Number2(SubSeq(s, c + 1, c + 2)), 0, 59))

\* computeGoalMl(weight_kg, activity_level, daily_minutes), variant 2.
computeGoalMl2(weight_kg, activity_level, daily_minutes) ==
    clamp(RoundDiv(35 * weight_kg, 10) + blocks(daily_minutes) * addPer(activity_level),
          1200, 4000)

\* makeSchedule(activity_level, wakeStr, sleepStr), variant 2.
makeSchedule(activity_level, wakeStr, sleepStr, today) ==
    Schedule(activity_level, parseHM(wakeStr, 7, 0, today), parseHM(sleepStr, 23, 0, today))

\* /run|gym|match|intense|cycle/.test(t)
IsHeavyWord(t) == \E w \in {"run", "gym", "match", "intense", "cycle"} : includes(t, w)

\* /walk|jog|yoga|swim/.test(t)
IsModerateWord(t) == \E w \in {"walk", "jog", "yoga", "swim"} : includes(t, w)

\* normalizeActivity(s), variants 3 and 4.
normalizeActivity(s) ==
    LET t == toLowerCase(s) IN
    IF includes(t, "heavy") THEN "Heavy"
    ELSE IF includes(t, "moderate") THEN "Moderate"
    ELSE IF includes(t, "sedentary") THEN "Sedentary"
    ELSE IF includes(t, "light") THEN "Light"
    ELSE IF IsHeavyWord(t) THEN "Heavy"
    ELSE IF IsModerateWord(t) THEN "Moderate"
    ELSE "Light"

\* { Sedentary:0, Light:400, Moderate:800, Heavy:1200 }[activity] ?? 400
addFlat(activity) ==
    CASE activity = "Sedentary" -> 0
      [] activity = "Light"     -> 400
      [] activity = "Moderate"  -> 800
      [] activity = "Heavy"     -> 1200
      [] OTHER                  -> 400

\* The body shared by the two fallbackPlan functions, given wake and sleep.
\* Its schedule is the fixed 35% / 45% / 20% one, whatever the activity.
fallbackBody(weight_kg, activity, wake, sleep, mlNow, pctNow, now, reason) ==
    LET goal == clamp(RoundDiv(35 * weight_kg, 10) + addFlat(activity), 1200, 4000)
        targetByNow == targetMlNow(goal, Schedule("Light", wake, sleep), now)
        remaining == Max(0, goal - mlNow)
        behind == mlNow + 50 < targetByNow
        veryLow == pctNow < 40
        gap == Max(0, targetByNow - mlNow)
    IN  [goal_ml |-> goal, target_ml_now |-> targetByNow,
         next_sip_ml |-> clamp(RoundDiv(gap, 3), 150, 250),
         should_notify |-> (behind \/ veryLow) /\ remaining > 0,
         reason |-> reason, nan |-> {}]

\* fallbackPlan({weight_kg, activity}, mlNow, pctNow, now), variant 3:
\* wake and sleep are parseHM('07:00') and parseHM('23:00').
fallbackPlan3(weight_kg, activity, mlNow, pctNow, now, today) ==
    fallbackBody(weight_kg, activity,
                 parseHM("07:00", 7, 0, today), parseHM("23:00", 7, 0, today),
                 mlNow, pctNow, now, "fallback")

\* fallbackPlan({weight_kg, activity, wakeStr, sleepStr}, ...), variant 4:
\* both strings are parsed with parseHM's default of 07:00.
fallbackPlan4(weight_kg, activity, wakeStr, sleepStr, mlNow, pctNow, now, today) ==
    fallbackBody(weight_kg, activity,
                 parseHM(wakeStr, 7, 0, today), parseHM(sleepStr, 7, 0, today),
                 mlNow, pctNow, now, "fallback schedule")

\* A parsed reply `data` carries each field as Null (absent or falsy) or a
\* present value; data.junk names the numeric fields whose value is not a
\* number (a word, an array, an object): Number(...) of those is NaN.
\* Math.round(Number(x || 0)) for a numeric field x that is not junk.
NumField(x) == IF IsNull(x) THEN 0 ELSE Val(x)

\* The fields of the plan that are NaN.  clamp(NaN, lo, hi) =
\* Math.max(lo, Math.min(NaN, hi)) is NaN, and so is clamp(v, 0, NaN).
nanFields(data) ==
    (IF "daily_goal_ml" \in data.junk THEN {"goal_ml", "target_ml_now"} ELSE {})
    \cup (IF "target_ml_by_now" \in data.junk THEN {"target_ml_now"} ELSE {})
    \cup (IF "next_sip_ml" \in data.junk THEN {"next_sip_ml"} ELSE {})

\* String.prototype.slice(0, n)
slice0(s, n) == SubSeq(s, 1, Min(n, Len(s)))

\* aiPlan's sanitising of the parsed reply `data` (variants 3 and 4).
\* A field that is NaN is listed in `nan` and carried as 0.
aiPlan(data) ==
    LET nan  == nanFields(data)
        goal == IF "goal_ml" \in nan THEN 0
                ELSE clamp(NumField(data.daily_goal_ml), 800, 6000)
    IN
    [goal_ml |-> goal,
     target_ml_now |-> IF "target_ml_now" \in nan THEN 0
                       ELSE clamp(NumField(data.target_ml_by_now), 0, goal),
     next_sip_ml |-> IF "next_sip_ml" \in nan THEN 0
                     ELSE clamp(NumField(data.next_sip_ml), 120, 300),
     should_notify |-> ~IsNull(data.should_notify) /\ Val(data.should_notify),
     reason |-> slice0(IF IsNull(data.short_reason) THEN "" ELSE Val(data.short_reason), 140),
     nan |-> nan]

\* Sip sizing of the rule-based handlers (variants 1 and 2).
baseMin(act) == IF act = "Heavy" THEN 200 ELSE IF act = "Moderate" THEN 180 ELSE 150

baseMax(act) == IF act = "Heavy" THEN 300 ELSE IF act = "Moderate" THEN 250 ELSE 220

nextSipMl(act, target_ml_now, ml) ==
    clamp(RoundDiv(Max(0, target_ml_now - ml), 3), baseMin(act), baseMax(act))

(***************************************************************************)
(* Configuration                                                           *)
(***************************************************************************)
\* process.env of a deployment: every variable is unset (Null) or set.
\* Numeric variables are carried by their numeric value.
BaseEnv(v) ==
    [variant |-> v, BOT_TOKEN |-> Some("token"), CHAT_ID |-> Some("42"),
     WEIGHT_KG |-> Null, ACTIVITY_LEVEL |-> Null, DAILY_ACTIVITY_MINUTES |-> Null,
     ACTIVITY_TODAY |-> Null, WAKE_TIME |-> Null, SLEEP_TIME |-> Null,
     QUIET_START_HOUR |-> Null, QUIET_END_HOUR |-> Null, MIN_INTERVAL_MIN |-> Null,
     CLINICIAN_LIMIT_ML |-> Null, OPENAI_API_KEY |-> FALSE]

\* process.env.X || d for a string, Number(process.env.X || d) for a number.
EnvOr(x, d) == IF IsNull(x) THEN d ELSE Val(x)

\* getDay() of the model's calendar day: the requests of one behaviour all
\* arrive on one Sunday, so the day's activity is ACT_SUN (default 'Light').
getConfig(e) ==
    [BOT_TOKEN |-> e.BOT_TOKEN, CHAT_ID |-> e.CHAT_ID,
     WEIGHT_KG |-> EnvOr(e.WEIGHT_KG, 700),
     ACTIVITY_LEVEL |-> EnvOr(e.ACTIVITY_LEVEL, "Moderate"),
     DAILY_ACTIVITY_MINUTES |-> EnvOr(e.DAILY_ACTIVITY_MINUTES, 60),
     ACT_SUN |-> EnvOr(e.ACTIVITY_TODAY, "Light"),
     WAKE_TIME |-> EnvOr(e.WAKE_TIME, "07:00"),
     SLEEP_TIME |-> EnvOr(e.SLEEP_TIME, "23:00"),
     QUIET_START |-> IF e.variant = 1 THEN 23 ELSE EnvOr(e.QUIET_START_HOUR, 23),
     QUIET_END |-> IF e.variant = 1 THEN 7 ELSE EnvOr(e.QUIET_END_HOUR, 7),
     MIN_INTERVAL_MIN |-> IF e.variant = 1 THEN 30 ELSE EnvOr(e.MIN_INTERVAL_MIN, 30),
     CLINICIAN_LIMIT_ML |-> e.CLINICIAN_LIMIT_ML]

(***************************************************************************)
(* The gates and the cooldown map                                          *)
(***************************************************************************)
quietHours_strict(hour, c) == hour > c.QUIET_START \/ hour < c.QUIET_END

\* hour >= QUIET_START || hour < QUIET_END
quietHours(hour, c) == hour >= c.QUIET_START \/ hour < c.QUIET_END

\* lastNotified.get(chatId) || 0
getLast(m, chatId) == IF chatId \in DOMAIN m THEN m[chatId] ELSE 0

rateLimited_off(m, chatId, dateNow, c) == FALSE

\* Date.now() - last < MIN_INTERVAL_MIN * 60 * 1000
rateLimited(m, chatId, dateNow, c) == dateNow - getLast(m, chatId) < c.MIN_INTERVAL_MIN

\* lastNotified.set(chatId, t)
setLast(m, chatId, t) ==
    [x \in (DOMAIN m) \cup {chatId} |-> IF x = chatId THEN t ELSE m[x]]

onTrackOrDone_ignores_remaining(behind, veryLow, remaining_ml) == ~(behind \/ veryLow)

\* !(behind || veryLow) || remaining_ml <= 0
onTrackOrDone(behind, veryLow, remaining_ml) == ~(behind \/ veryLow) \/ remaining_ml <= 0

(***************************************************************************)
(* Requests                                                                *)
(***************************************************************************)
\* One invocation of handler(req, res).  pc is where it stands:
\*   "new"      not arrived yet
\*   "ai"       awaiting aiPlan's fetch (variants 3, 4)
\*   "rephrase" awaiting the optional rephrasing fetch (variant 2)
\*   "send"     awaiting the Telegram send it has issued
\*   "done"     answered
\* stage is the last point of the handler it reached, status and body its
\* answer.  arrived, hour, cool, src, readLast and sent are bookkeeping for
\* the properties: the arrival time and its hour, whether a send of the same
\* instance had returned less than MIN_INTERVAL_MIN before the arrival,
\* which planner made the plan, whether the handler read the map and whether
\* it issued a send.
NewReq ==
    [pc |-> "new", inst |-> "a", method |-> "POST", ml |-> Null, pct |-> Null,
     profile |-> [kind |-> "undefined", p |-> EmptyProfile],
     arrived |-> 0, now |-> 0, hour |-> 0, cool |-> FALSE,
     stage |-> "new", status |-> 0, body |-> "",
     src |-> "none", act |-> "", goal_ml |-> 0, target_ml_now |-> 0,
     next_sip_ml |-> 0, reason |-> "", should_notify |-> FALSE, nan |-> {},
     reply |-> "none", readLast |-> FALSE, sent |-> FALSE]

Reply_after_send(r, stage, status, body) ==
    [r EXCEPT !.pc = "done", !.stage = stage, !.status = status, !.body = body,
              !.sent = TRUE]

\* res.status(status).json(...) and return.
Reply(r, stage, status, body) ==
    [r EXCEPT !.pc = "done", !.stage = stage, !.status = status, !.body = body]

\* The call of telegramSend / TG: the message leaves, the handler awaits.
IssueSend(r) == [r EXCEPT !.pc = "send", !.stage = "send", !.sent = TRUE]

\* Lines 43-57 and 301-313: the decision and the sip size of the rule-based
\* handlers, for a request r that carries goal_ml, target_ml_now and act.
decideRule(r, e) ==
    LET ml == Val(r.ml)
        remaining_ml == Max(0, r.goal_ml - ml)
        behind == ml + 50 < r.target_ml_now
        veryLow == Val(r.pct) < 40
    IN  IF onTrackOrDone(behind, veryLow, remaining_ml)
        THEN Reply(r, "decide", 200, "on_track_or_done")
        ELSE LET r1 == [r EXCEPT !.next_sip_ml = nextSipMl(r.act, r.target_ml_now, ml)]
             IN  IF e.variant = 2 /\ e.OPENAI_API_KEY
                 THEN [r1 EXCEPT !.pc = "rephrase", !.stage = "rephrase"]
                 ELSE IssueSend(r1)

\* Lines 577-588 and 806-814: the decision of the AI handlers on a plan.
decidePlan(r, plan, src) ==
    LET r1 == [r EXCEPT !.src = src, !.goal_ml = plan.goal_ml,
                        !.target_ml_now = plan.target_ml_now,
                        !.next_sip_ml = plan.next_sip_ml, !.reason = plan.reason,
                        !.should_notify = plan.should_notify, !.nan = plan.nan]
        \* Math.max(0, NaN - ml) is NaN and NaN <= 0 is false.
        remainingDone == "goal_ml" \notin plan.nan /\ Max(0, plan.goal_ml - Val(r.ml)) <= 0
    IN  IF ~plan.should_notify \/ remainingDone
        THEN Reply(r1, "decide", 200, "on_track_or_done")
        ELSE IssueSend(r1)

\* The fallback plan of a request of variant 3 or 4, computed at time t.
fallbackOf(r, e, t) ==
    LET c == getConfig(e) IN
    IF e.variant = 3
    THEN fallbackPlan3(c.WEIGHT_KG, r.act, Val(r.ml), Val(r.pct), r.now, t)
    ELSE fallbackPlan4(c.WEIGHT_KG, r.act, c.WAKE_TIME, c.SLEEP_TIME,
                       Val(r.ml), Val(r.pct), r.now, t)

\* handler, variant 1, up to its first await after the body is read.
\* m is the lastNotified map of the instance, t the time.
handler1(r, e, m, t) ==
    LET c == getConfig(e) IN
    IF r.method # "POST" THEN Reply(r, "method", 405, "POST only")
    ELSE IF IsNull(r.pct) \/ IsNull(r.ml) THEN Reply(r, "payload", 400, "missing pct/ml")
    ELSE IF IsNull(e.CHAT_ID) \/ IsNull(e.BOT_TOKEN)
         THEN Reply(r, "creds", 500, "missing env vars")
    ELSE IF quietHours(getHours(t), c) THEN Reply(r, "quiet", 200, "quiet_hours")
    ELSE IF r.profile.kind = "null" THEN Reply(r, "throw", 500, "server_error")
    ELSE
    LET ctx  == computeContext(r.profile.p, t, t)
        goal == computeGoalMl1(ctx)
        r1   == [r EXCEPT !.now = ctx.now, !.src = "rule", !.act = ctx.activity_level,
                          !.goal_ml = goal,
                          !.target_ml_now = targetMlNow(goal, computeSchedule(ctx), ctx.now),
                          !.readLast = TRUE]
    IN  IF rateLimited(m, Val(e.CHAT_ID), t, c) THEN Reply(r1, "interval", 200, "interval")
        ELSE decideRule(r1, e)

\* handler, variant 2.
handler2(r, e, m, t) ==
    LET c == getConfig(e) IN
    IF r.method # "POST" THEN Reply(r, "method", 405, "POST only")
    ELSE IF IsNull(c.BOT_TOKEN) \/ IsNull(c.CHAT_ID)
         THEN Reply(r, "creds", 500, "Missing BOT_TOKEN or CHAT_ID env vars")
    ELSE IF IsNull(r.ml) \/ IsNull(r.pct)
         THEN Reply(r, "payload", 400, "missing ml/pct in JSON body")
    ELSE IF quietHours(getHours(t), c) THEN Reply(r, "quiet", 200, "quiet_hours")
    ELSE
    LET goal == computeGoalMl2(c.WEIGHT_KG, c.ACTIVITY_LEVEL, c.DAILY_ACTIVITY_MINUTES)
        sched == makeSchedule(c.ACTIVITY_LEVEL, c.WAKE_TIME, c.SLEEP_TIME, t)
        r1   == [r EXCEPT !.src = "rule", !.act = c.ACTIVITY_LEVEL, !.goal_ml = goal,
                          !.target_ml_now = targetMlNow(goal, sched, t),
                          !.readLast = TRUE]
    IN  IF rateLimited(m, Val(c.CHAT_ID), t, c) THEN Reply(r1, "interval", 200, "interval")
        ELSE decideRule(r1, e)

\* handler34 with the cooldown gate ahead of the quiet-hours gate.
handler34_rate_first(r, e, m, t) ==
    LET c == getConfig(e) IN
    IF r.method # "POST" THEN Reply(r, "method", 405, "POST only")
    ELSE IF IsNull(c.BOT_TOKEN) \/ IsNull(c.CHAT_ID)
         THEN Reply(r, "creds", 500, "missing BOT_TOKEN/CHAT_ID")
    ELSE IF IsNull(r.ml) \/ IsNull(r.pct) THEN Reply(r, "payload", 400, "missing ml/pct")
    ELSE
    LET r1 == [r EXCEPT !.readLast = TRUE] IN
    IF rateLimited(m, Val(c.CHAT_ID), t, c) THEN Reply(r1, "interval", 200, "interval")
    ELSE IF quietHours(getHours(t), c) THEN Reply(r1, "quiet", 200, "quiet_hours")
    ELSE LET r2 == [r1 EXCEPT !.act = normalizeActivity(c.ACT_SUN)] IN
         IF e.OPENAI_API_KEY THEN [r2 EXCEPT !.pc = "ai", !.stage = "ai"]
         ELSE decidePlan(r2, fallbackOf(r2, e, t), "fallback")

\* handler, variants 3 and 4, up to the await of aiPlan (or, with no
\* OPENAI_API_KEY, through the fallback plan to the send).
handler34(r, e, m, t) ==
    LET c == getConfig(e) IN
    IF r.method # "POST" THEN Reply(r, "method", 405, "POST only")
    ELSE IF IsNull(c.BOT_TOKEN) \/ IsNull(c.CHAT_ID)
         THEN Reply(r, "creds", 500, "missing BOT_TOKEN/CHAT_ID")
    ELSE IF IsNull(r.ml) \/ IsNull(r.pct) THEN Reply(r, "payload", 400, "missing ml/pct")
    ELSE IF quietHours(getHours(t), c) THEN Reply(r, "quiet", 200, "quiet_hours")
    ELSE
    LET r1 == [r EXCEPT !.readLast = TRUE] IN
    IF rateLimited(m, Val(c.CHAT_ID), t, c) THEN Reply(r1, "interval", 200, "interval")
    ELSE LET r2 == [r1 EXCEPT !.act = normalizeActivity(c.ACT_SUN)] IN
         IF e.OPENAI_API_KEY THEN [r2 EXCEPT !.pc = "ai", !.stage = "ai"]
         ELSE decidePlan(r2, fallbackOf(r2, e, t), "fallback")

handler(r, e, m, t) ==
    IF e.variant = 1 THEN handler1(r, e, m, t)
    ELSE IF e.variant = 2 THEN handler2(r, e, m, t)
    ELSE handler34(r, e, m, t)

(***************************************************************************)
(* Inputs of the model                                                     *)
(***************************************************************************)
MaxReq == 2

Instances == {"a", "b"}

\* The calendar day of the model (a Sunday) and the minutes of that day at
\* which something may happen: hours 6, 7, 22 and 23 around the default
\* quiet window (06:30, 07:30, 22:40, 23:00), and 07:40 and 08:00, which
\* are 10 and 30 minutes after 07:30.
Epoch == 10 * MinutesPerDay

Instants == {390, 450, 460, 480, 1360, 1380}

Times == {Epoch + i : i \in Instants}

Object(p) == [kind |-> "object", p |-> p]

Profiles ==
    { [kind |-> "undefined", p |-> EmptyProfile],
      [kind |-> "null", p |-> EmptyProfile],
      Object([EmptyProfile EXCEPT !.wake_time = Some("07:00"), !.sleep_time = Some("23:00"),
                                  !.weight_kg = Some(700),
                                  !.activity_level = Some("Moderate"),
                                  !.daily_activity_minutes = Some(60)]),
      Object([EmptyProfile EXCEPT !.wake_time = Some("06:00"), !.sleep_time = Some("22:00"),
                                  !.weight_kg = Some(805),
                                  !.activity_level = Some("Heavy"),
                                  !.daily_activity_minutes = Some(45),
                                  !.temp_c = Some(31)]),
      Object([EmptyProfile EXCEPT !.wake_time = Some("7:00"), !.sleep_time = Some("23:00"),
                                  !.weight_kg = Some(1000),
                                  !.activity_level = Some("gym"),
                                  !.medical_conditions = Some({"ckd"})]),
      Object([EmptyProfile EXCEPT !.wake_time = Some("08:00"),
                                  !.weight_kg = Some(100),
                                  !.activity_level = Some("Sedentary"),
                                  !.clinician_limit_ml = Some(1000),
                                  !.humidity_pct = Some(80)]) }

\* The readings {ml, pct} a request may carry.
Readings(e) ==
    IF e.variant \in {1, 2}
    THEN { <<0, 100>>, <<1000, 30>>, <<1000, 100>>, <<4000, 30>> }
    ELSE { <<0, 100>>, <<4000, 30>> }

Payloads(e) ==
    { [method |-> "POST", ml |-> Some(rd[1]), pct |-> Some(rd[2]), profile |-> pf] :
        rd \in Readings(e),
        pf \in IF e.variant = 1 THEN Profiles ELSE {[kind |-> "undefined", p |-> EmptyProfile]} }
    \cup
    { [method |-> "GET", ml |-> Null, pct |-> Null,
       profile |-> [kind |-> "undefined", p |-> EmptyProfile]],
      [method |-> "POST", ml |-> Null, pct |-> Some(30),
       profile |-> [kind |-> "undefined", p |-> EmptyProfile]],
      [method |-> "POST", ml |-> Some(0), pct |-> Null,
       profile |-> [kind |-> "undefined", p |-> EmptyProfile]] }

Envs ==
    { BaseEnv(1),
      [BaseEnv(1) EXCEPT !.CHAT_ID = Null],
      BaseEnv(2),
      [BaseEnv(2) EXCEPT !.ACTIVITY_LEVEL = Some("gym"), !.WEIGHT_KG = Some(555),
                         !.DAILY_ACTIVITY_MINUTES = Some(45),
                         !.WAKE_TIME = Some("6:30"), !.OPENAI_API_KEY = TRUE],
      [BaseEnv(2) EXCEPT !.ACTIVITY_LEVEL = Some("Heavy"),
                         !.QUIET_START_HOUR = Some(1), !.QUIET_END_HOUR = Some(6)],
      BaseEnv(3),
      [BaseEnv(3) EXCEPT !.OPENAI_API_KEY = TRUE],
      [BaseEnv(3) EXCEPT !.ACTIVITY_TODAY = Some("Gym, then a run"),
                         !.CLINICIAN_LIMIT_ML = Some(1500)],
      BaseEnv(4),
      [BaseEnv(4) EXCEPT !.OPENAI_API_KEY = TRUE, !.ACTIVITY_TODAY = Some("Moderate")],
      [BaseEnv(4) EXCEPT !.ACTIVITY_TODAY = Some("yoga class"),
                         !.WAKE_TIME = Some("08:00"), !.SLEEP_TIME = Some("late"),
                         !.BOT_TOKEN = Some("token")] }

\* The payloads and environments of the overlapping load.
RacePayloads ==
    { [method |-> "POST", ml |-> Some(rd[1]), pct |-> Some(rd[2]),
       profile |-> [kind |-> "undefined", p |-> EmptyProfile]] :
        rd \in { <<1000, 30>> } }

RaceEnvs ==
    { BaseEnv(1), BaseEnv(2), BaseEnv(3),
      [BaseEnv(4) EXCEPT !.OPENAI_API_KEY = TRUE, !.ACTIVITY_TODAY = Some("Moderate")] }

\* Parsed replies of the text-generation call.
Replies ==
    { [daily_goal_ml |-> Some(2500), target_ml_by_now |-> Some(1200),
       next_sip_ml |-> Some(200), should_notify |-> Some(TRUE),
       short_reason |-> Some("You are behind."), junk |-> {}],
      [daily_goal_ml |-> Some(5000), target_ml_by_now |-> Some(9000),
       next_sip_ml |-> Some(999), should_notify |-> Some(TRUE),
       short_reason |-> Null, junk |-> {}],
      [daily_goal_ml |-> Some(500), target_ml_by_now |-> Some(100),
       next_sip_ml |-> Some(50), should_notify |-> Some(TRUE),
       short_reason |-> Some("On track."), junk |-> {}],
      [daily_goal_ml |-> Null, target_ml_by_now |-> Null,
       next_sip_ml |-> Null, should_notify |-> Null,
       short_reason |-> Null, junk |-> {}],
      [daily_goal_ml |-> Some(0), target_ml_by_now |-> Some(1200),
       next_sip_ml |-> Some(200), should_notify |-> Some(TRUE),
       short_reason |-> Some("Drink."), junk |-> {"daily_goal_ml"}] }

(***************************************************************************)
(* The state machine                                                       *)
(***************************************************************************)
DoneReq == [NewReq EXCEPT !.pc = "done"]

NoFn == [op |-> "none"]

Init ==
    /\ clock = Epoch + 390
    /\ cfg \in Envs
    /\ lastNotified = [i \in Instances |-> <<>>]
    /\ reqs = [i \in 1..MaxReq |-> NewReq]
    /\ started = 0
    /\ last = NewReq
    /\ sends = <<>>
    /\ fn = NoFn

\* Request id moves to record r: an answered request becomes `last` (the
\* answer last written, kept until time passes or a request arrives), a
\* send it has just issued is logged.
Settle(id, r) ==
    /\ IF r.pc = "done"
       THEN /\ last' = r
            /\ reqs' = [reqs EXCEPT ![id] = DoneReq]
       ELSE /\ last' = NewReq
            /\ reqs' = [reqs EXCEPT ![id] = r]
    /\ sends' = IF r.sent /\ ~reqs[id].sent
                THEN Append(sends, [id |-> id, inst |-> r.inst, arrived |-> r.arrived,
                                    at |-> clock, wrote |-> Null])
                ELSE sends

\* Time passes.
TickTo(T) ==
    /\ \E t \in T : t > clock /\ clock' = t
    /\ last' = NewReq
    /\ UNCHANGED <<cfg, lastNotified, reqs, started, sends, fn>>

Tick == TickTo(Times)

\* Time passes under the overlapping load: 07:30, 07:40, 08:00.
RaceTick == TickTo({Epoch + 450, Epoch + 460, Epoch + 480})

\* A request with payload pl arrives at instance inst and runs to its first
\* await or to its answer.
Arrive(inst, pl) ==
    /\ started < MaxReq
    /\ started = 0 => inst = "a"
    /\ LET id == started + 1
           r0 == [NewReq EXCEPT
                    !.inst = inst, !.method = pl.method, !.ml = pl.ml,
                    !.pct = pl.pct, !.profile = pl.profile,
                    !.arrived = clock, !.now = clock, !.hour = getHours(clock),
                    !.cool = \E k \in 1..Len(sends) :
                                /\ sends[k].inst = inst
                                /\ ~IsNull(sends[k].wrote)
                                /\ clock - Val(sends[k].wrote)
                                     < getConfig(cfg).MIN_INTERVAL_MIN]
       IN  Settle(id, handler(r0, cfg, lastNotified[inst], clock))
    /\ started' = started + 1
    /\ UNCHANGED <<clock, cfg, lastNotified, fn>>

InFlight == {k \in 1..MaxReq : reqs[k].pc \notin {"new", "done"}}

\* Serial load: a request arrives when no other is being handled.
ArriveSerial ==
    /\ InFlight = {}
    /\ \E inst \in Instances, pl \in Payloads(cfg) : Arrive(inst, pl)

\* Overlapping load: a request arrives at any time.
ArriveOverlap ==
    \E inst \in Instances, pl \in RacePayloads : Arrive(inst, pl)

\* The required fields of a reply (lines 476-479 of the prompt, 509-514).
RequiredFields ==
    {"daily_goal_ml", "target_ml_by_now", "next_sip_ml", "should_notify", "short_reason"}

\* Whether the parsed reply has every required field.
replyKind(data) ==
    IF \E f \in RequiredFields : IsNull(data[f]) THEN "incomplete" ELSE "complete"

\* aiPlan returns a sanitised plan of a reply among D.
AiReturnOf(D) ==
    /\ \E id \in 1..MaxReq, data \in D :
         /\ reqs[id].pc = "ai"
         /\ Settle(id, [decidePlan(reqs[id], aiPlan(data), "ai")
                          EXCEPT !.reply = replyKind(data)])
    /\ UNCHANGED <<clock, cfg, lastNotified, started, fn>>

AiReturn == AiReturnOf(Replies)

\* The replies of the overlapping load: those that ask for a notification
\* with every field a number.
RaceAiReturn ==
    AiReturnOf({d \in Replies : d.junk = {} /\ d.should_notify = Some(TRUE)
                                 /\ d.short_reason # Null})

\* aiPlan throws (fetch rejects, no content, content that is not JSON): the
\* catch block computes the fallback plan.
AiFail ==
    /\ \E id \in 1..MaxReq :
         /\ reqs[id].pc = "ai"
         /\ Settle(id, [decidePlan(reqs[id], fallbackOf(reqs[id], cfg, clock), "fallback")
                          EXCEPT !.reply = "failed"])
    /\ UNCHANGED <<clock, cfg, lastNotified, started, fn>>

\* Variant 2: the rephrasing fetch ends (its failure is caught); the send is issued.
RephraseReturn ==
    /\ \E id \in 1..MaxReq :
         /\ reqs[id].pc = "rephrase"
         /\ Settle(id, IssueSend(reqs[id]))
    /\ UNCHANGED <<clock, cfg, lastNotified, started, fn>>

sendReturn_stamps_arrival(r, m, chatId, t) == setLast(m, chatId, r.arrived)

\* lastNotified.set(chatId, Date.now()) after the awaited send returned.
sendReturn(r, m, chatId, t) == setLast(m, chatId, t)

\* The send returns: the timestamp is written, the request answered.
SendReturn ==
    /\ \E id \in 1..MaxReq :
         /\ reqs[id].pc = "send"
         /\ lastNotified' =
              [lastNotified EXCEPT ![reqs[id].inst] =
                  sendReturn(reqs[id], @, Val(cfg.CHAT_ID), clock)]
         /\ last' = Reply(reqs[id], "notified", 200, "notified")
         /\ reqs' = [reqs EXCEPT ![id] = DoneReq]
         /\ sends' = [k \in 1..Len(sends) |->
                        IF sends[k].id = id
                        THEN [sends[k] EXCEPT !.wrote = Some(clock)] ELSE sends[k]]
    /\ UNCHANGED <<clock, cfg, started, fn>>

sendThrow_stamps(r, m, chatId, t) == setLast(m, chatId, t)

\* The awaited send throws: control goes to the catch block, past
\* lastNotified.set; the map stays as it is.
sendThrow(r, m, chatId, t) == m

\* The send throws: the catch block answers 500.
SendThrow ==
    /\ \E id \in 1..MaxReq :
         /\ reqs[id].pc = "send"
         /\ lastNotified' =
              [lastNotified EXCEPT ![reqs[id].inst] =
                  sendThrow(reqs[id], @, Val(cfg.CHAT_ID), clock)]
         /\ last' = Reply(reqs[id], "throw", 500, "server_error")
         /\ reqs' = [reqs EXCEPT ![id] = DoneReq]
    /\ UNCHANGED <<clock, cfg, started, sends, fn>>

Next ==
    \/ Tick
    \/ ArriveSerial
    \/ AiReturn
    \/ AiFail
    \/ RephraseReturn
    \/ SendReturn
    \/ SendThrow

\* Requests handled one after the other.
Spec == Init /\ [][Next]_vars

RaceInit ==
    /\ Init
    /\ cfg \in RaceEnvs

RaceNext ==
    \/ RaceTick
    \/ ArriveOverlap
    \/ RaceAiReturn
    \/ AiFail
    \/ SendReturn
    \/ SendThrow

\* Requests that may overlap.
RaceSpec == RaceInit /\ [][RaceNext]_vars

(***************************************************************************)
(* The pure functions applied to inputs of their own                       *)
(***************************************************************************)
Levels == {"Sedentary", "Light", "Moderate", "Heavy"}

GoalWeights == {100, 455, 700, 805, 1200}

GoalMinutes == {0 - 30, 0, 14, 15, 45, 60, 120}

GoalLimits == {Null, Some(1000), Some(1500), Some(3000), Some(5000)}

GoalConditions == {{}, {"ckd"}, {"asthma", "hf"}}

ClockStrings == {"07:00", "6:30", "08:20", "22:00", "23:00", "23:40", "late"}

\* Every hour of the model's day from 06:00 on, and 12:30 and 20:20 (33% and
\* 80% of the way from 07:00 to 23:40).
ScheduleTimes == {Epoch + 360 + 60 * i : i \in 0..18} \cup {Epoch + 750, Epoch + 1220}

ActivityTexts ==
    {"Heavy", "moderate", "SEDENTARY", "Light", "light gym", "Gym, then a run",
     "tennis match", "intense", "cycle to work", "walk", "jog", "yoga class",
     "swim", "nap", "", "heavy yoga", "running lightly"}

\* computeGoalMl of variants 1 and 2 on a normalised context.
ApplyGoal ==
    /\ fn = NoFn
    /\ \E w \in GoalWeights, a \in Levels \cup {"gym"}, mins \in GoalMinutes,
          t \in {Null, Some(29), Some(30)}, h \in {Null, Some(69), Some(70)},
          mc \in GoalConditions, lim \in GoalLimits :
         LET ctx == [weight_kg |-> w, activity_level |-> a,
                     daily_activity_minutes |-> mins, medical_conditions |-> mc,
                     clinician_limit_ml |-> lim, temp_c |-> t, humidity_pct |-> h]
         IN  fn' = [op |-> "computeGoalMl", ctx |-> ctx,
                    out |-> computeGoalMl1(ctx),
                    out2 |-> computeGoalMl2(w, a, mins)]
    /\ UNCHANGED <<clock, cfg, lastNotified, reqs, started, last, sends>>

\* makeSchedule on two clock strings, and fractionAt at two ordered times,
\* at wake and at sleep.
ApplySchedule ==
    /\ fn = NoFn
    /\ \E a \in Levels, ws \in ClockStrings, ss \in ClockStrings,
          t1 \in ScheduleTimes, t2 \in ScheduleTimes :
         /\ t1 <= t2
         /\ LET s == makeSchedule(a, ws, ss, clock)
            IN  fn' = [op |-> "fractionAt", act |-> a, s |-> s, t1 |-> t1, t2 |-> t2,
                       f1 |-> fractionAt(s, t1), f2 |-> fractionAt(s, t2),
                       atWake |-> fractionAt(s, s.wake),
                       atSleep |-> fractionAt(s, s.sleep)]
    /\ UNCHANGED <<clock, cfg, lastNotified, reqs, started, last, sends>>

\* normalizeActivity on a free text.
ApplyNormalize ==
    /\ fn = NoFn
    /\ \E s \in ActivityTexts :
         fn' = [op |-> "normalizeActivity", s |-> s, out |-> normalizeActivity(s)]
    /\ UNCHANGED <<clock, cfg, lastNotified, reqs, started, last, sends>>

\* A text of 10 n characters.
RECURSIVE Repeat(_)
Repeat(n) == IF n = 0 THEN "" ELSE "0123456789" \o Repeat(n - 1)

\* Values of a numeric field of a reply: absent, negative, in range, huge.
ReplyNumbers == {Null, Some(0 - 5), Some(2500), Some(1000000)}

\* Reasons: absent, short, 140 characters, 150 characters.
ReplyReasons == {Null, Some("Drink."), Some(Repeat(14)), Some(Repeat(15))}

\* aiPlan's sanitising on a parsed reply.
ApplyAiPlan ==
    /\ fn = NoFn
    /\ \E g \in ReplyNumbers, t \in ReplyNumbers, sip \in {Null, Some(50), Some(999)},
          sn \in {Null, Some(TRUE), Some(FALSE)}, sr \in ReplyReasons,
          j \in SUBSET {"daily_goal_ml", "target_ml_by_now", "next_sip_ml"} :
         /\ \A f \in j : f = "daily_goal_ml" => g # Null
         /\ \A f \in j : f = "target_ml_by_now" => t # Null
         /\ \A f \in j : f = "next_sip_ml" => sip # Null
         /\ LET data == [daily_goal_ml |-> g, target_ml_by_now |-> t,
                         next_sip_ml |-> sip, should_notify |-> sn,
                         short_reason |-> sr, junk |-> j]
            IN  fn' = [op |-> "aiPlan", data |-> data, out |-> aiPlan(data)]
    /\ UNCHANGED <<clock, cfg, lastNotified, reqs, started, last, sends>>

FnInit ==
    /\ Init
    /\ cfg = BaseEnv(2)

FnNext ==
    \/ ApplyGoal
    \/ ApplySchedule
    \/ ApplyNormalize
    \/ ApplyAiPlan

\* The goal calculators, the schedule and the normaliser as functions.
FnSpec == FnInit /\ [][FnNext]_vars

(***************************************************************************)
(* Properties                                                              *)
(***************************************************************************)
\* The request r has been answered.
Answered(r) == r.pc = "done" /\ r.status # 0

\* A POST with ml and pct, a profile that is absent or an object, and both
\* credentials configured.
ValidRequest(r) ==
    /\ r.method = "POST"
    /\ ~IsNull(r.ml) /\ ~IsNull(r.pct)
    /\ r.profile.kind # "null"
    /\ ~IsNull(cfg.BOT_TOKEN) /\ ~IsNull(cfg.CHAT_ID)

\* r came through the quiet-hours gate and the cooldown gate.
PassedGates(r) ==
    \/ r.stage \in {"decide", "rephrase", "send", "notified"}
    \/ r.stage = "throw" /\ r.sent

RuleBased(r) == r.src \in {"rule", "fallback"}

HourOf(r) == (r.arrived % 1440) \div 60

InWindow(r) ==
    HourOf(r) >= getConfig(cfg).QUIET_START \/ HourOf(r) < getConfig(cfg).QUIET_END

C1_Cond(r) ==
    /\ (Val(r.ml) + 50 < r.target_ml_now) \/ (Val(r.pct) < 40)
    /\ r.goal_ml - Val(r.ml) > 0

\* C1: in the rule-based handlers and in the fallback plan, a request that
\* has passed the quiet-hours and cooldown gates sends a notification if and
\* only if (ml + 50 < target_ml_now or pct < 40) and goal_ml - ml > 0;
\* otherwise it is answered skipped 'on_track_or_done' and sends nothing.
\* pct < 40 with ml >= goal_ml is skipped; ml = 0, pct = 100 and
\* target_ml_now = 0 is skipped.
C1_NotifyIff ==
    /\ (Answered(last) /\ RuleBased(last) /\ PassedGates(last)) =>
          /\ last.sent <=> C1_Cond(last)
          /\ ~last.sent => (last.status = 200 /\ last.body = "on_track_or_done")
          /\ (Val(last.pct) < 40 /\ Val(last.ml) >= last.goal_ml) =>
                last.body = "on_track_or_done"
          /\ (Val(last.ml) = 0 /\ Val(last.pct) = 100 /\ last.target_ml_now = 0) =>
                last.body = "on_track_or_done"
    /\ \A k \in 1..MaxReq :
          (reqs[k].pc \in {"rephrase", "send"} /\ RuleBased(reqs[k])) => C1_Cond(reqs[k])

\* A very low reading of a bottle whose goal is already met is skipped.
C1_Witness ==
    /\ Answered(last) /\ RuleBased(last) /\ PassedGates(last)
    /\ Val(last.pct) < 40 /\ Val(last.ml) >= last.goal_ml
    /\ last.body = "on_track_or_done" /\ ~last.sent

\* C2: of two requests for the same recipient handled one after the other by
\* the same process, both outside quiet hours, where the first sent a
\* notification and the second arrives less than min_interval_minutes after
\* the first's timestamp was written, the second is answered skipped
\* 'interval' and sends nothing, whatever its ml and pct; two notifications
\* of non-overlapping requests are never less than min_interval_minutes apart.
C2_Cooldown ==
    /\ (Answered(last) /\ ValidRequest(last) /\ ~InWindow(last) /\ last.cool) =>
          (last.status = 200 /\ last.body = "interval" /\ ~last.sent)
    /\ \A i, j \in 1..Len(sends) :
          (/\ i < j
           /\ sends[i].inst = sends[j].inst
           /\ ~IsNull(sends[i].wrote)
           /\ sends[j].arrived >= Val(sends[i].wrote)) =>
             sends[j].at - sends[i].at >= getConfig(cfg).MIN_INTERVAL_MIN

\* A reading that would notify (pct < 40, goal not met) is skipped for the
\* cooldown.
C2_Witness ==
    /\ Answered(last) /\ ValidRequest(last) /\ last.cool
    /\ last.body = "interval"
    /\ Val(last.pct) < 40 /\ Val(last.ml) = 1000

\* C3: the cooldown is best effort.  A handler reads the map before it issues
\* its send and writes its timestamp only after the send has returned: the
\* map of an instance holds the time of the last returned send and nothing
\* of a request still awaiting its send, and two notifications of one
\* instance less than min_interval_minutes apart come only from requests
\* that overlapped (the later arrived before the earlier wrote).  Such a
\* pair is reachable inside one process (C3_Witness).
C3_BestEffort ==
    /\ \A k \in 1..Len(sends) :
          /\ sends[k].arrived <= sends[k].at
          /\ ~IsNull(sends[k].wrote) => sends[k].at <= Val(sends[k].wrote)
          /\ reqs[sends[k].id].pc = "send" => IsNull(sends[k].wrote)
    /\ \A i \in Instances :
          LET W == {Val(sends[k].wrote) : k \in {x \in 1..Len(sends) :
                        sends[x].inst = i /\ ~IsNull(sends[x].wrote)}}
          IN  IF W = {} THEN DOMAIN lastNotified[i] = {}
              ELSE /\ DOMAIN lastNotified[i] = {Val(cfg.CHAT_ID)}
                   /\ lastNotified[i][Val(cfg.CHAT_ID)] \in W
                   /\ \A w \in W : w <= lastNotified[i][Val(cfg.CHAT_ID)]
    /\ \A i, j \in 1..Len(sends) :
          (/\ i < j
           /\ sends[i].inst = sends[j].inst
           /\ ~IsNull(sends[i].wrote) /\ ~IsNull(sends[j].wrote)
           /\ sends[j].at - sends[i].at < getConfig(cfg).MIN_INTERVAL_MIN) =>
             sends[j].arrived <= Val(sends[i].wrote)

\* Two requests of one instance have both notified, less than the interval apart.
C3_Witness ==
    \E i, j \in 1..Len(sends) :
        /\ i < j
        /\ sends[i].inst = sends[j].inst
        /\ ~IsNull(sends[i].wrote) /\ ~IsNull(sends[j].wrote)
        /\ sends[j].at - sends[i].at < getConfig(cfg).MIN_INTERVAL_MIN

\* The same on two instances, each with a map of its own.
C3_SeparateInstances ==
    \E i, j \in 1..Len(sends) :
        /\ i < j
        /\ sends[i].inst # sends[j].inst
        /\ ~IsNull(sends[i].wrote) /\ ~IsNull(sends[j].wrote)
        /\ sends[j].arrived >= Val(sends[i].wrote)
        /\ sends[j].at - sends[i].at < getConfig(cfg).MIN_INTERVAL_MIN

DefaultWindow ==
    cfg.variant = 1 \/ (IsNull(cfg.QUIET_START_HOUR) /\ IsNull(cfg.QUIET_END_HOUR))

\* C4: with the default quiet window (23 to 7) a valid POST arriving at
\* local hour h is answered skipped 'quiet_hours' exactly when h >= 23 or
\* h < 7; such a request sends no message and does not read the cooldown map.
C4_QuietHours ==
    (Answered(last) /\ ValidRequest(last) /\ DefaultWindow) =>
       /\ (last.status = 200 /\ last.body = "quiet_hours")
             <=> (HourOf(last) >= 23 \/ HourOf(last) < 7)
       /\ last.body = "quiet_hours" => (~last.sent /\ ~last.readLast)

\* A request at 06:xx is skipped for quiet hours.
C4_Witness ==
    /\ Answered(last) /\ ValidRequest(last) /\ DefaultWindow
    /\ HourOf(last) = 6 /\ last.body = "quiet_hours"

\* C5: the gates apply in the order quiet hours, cooldown, behind/remaining.
\* A valid request is answered 'quiet_hours' whenever its hour is in the
\* quiet window (also while the cooldown is active), 'interval' whenever its
\* hour is outside the window and the cooldown is active (also when the
\* reading is on track or done), and 'on_track_or_done' only when both
\* gates have passed; the first two do not depend on ml or pct.
C5_GateOrder ==
    (Answered(last) /\ ValidRequest(last)) =>
       /\ InWindow(last) => (last.status = 200 /\ last.body = "quiet_hours")
       /\ (~InWindow(last) /\ last.cool) => (last.status = 200 /\ last.body = "interval")
       /\ last.body = "on_track_or_done" => (~InWindow(last) /\ ~last.cool)
       /\ last.body = "quiet_hours" => InWindow(last)
       /\ last.body = "interval" => (~InWindow(last) /\ last.cool)

\* A request in quiet hours while the cooldown is active reports quiet hours.
C5_Witness ==
    /\ Answered(last) /\ ValidRequest(last)
    /\ InWindow(last) /\ last.cool /\ last.body = "quiet_hours"

C6_AddPer(a) ==
    CASE a = "Sedentary" -> 0 [] a = "Light" -> 200 [] a = "Moderate" -> 400
      [] a = "Heavy" -> 600

C6_Uncapped(ctx) ==
    RoundDiv(35 * ctx.weight_kg, 10)
    + Max(0, RoundDiv(ctx.daily_activity_minutes, 30)) * C6_AddPer(ctx.activity_level)
    + (IF \/ (ctx.temp_c # Null /\ Val(ctx.temp_c) >= 30)
          \/ (ctx.humidity_pct # Null /\ Val(ctx.humidity_pct) >= 70)
       THEN 300 ELSE 0)

C6_Capped(ctx) ==
    IF ctx.clinician_limit_ml # Null
    THEN Min(C6_Uncapped(ctx), Val(ctx.clinician_limit_ml))
    ELSE IF ctx.medical_conditions \cap {"ckd", "hf"} # {}
         THEN Min(C6_Uncapped(ctx), 2000)
         ELSE C6_Uncapped(ctx)

C6_Plain(ctx) ==
    /\ ctx.temp_c = Null /\ ctx.humidity_pct = Null
    /\ ctx.clinician_limit_ml = Null /\ ctx.medical_conditions = {}

\* C6: for every normalised profile computeGoalMl returns
\* clamp(capped, 1200, 4000) with uncapped = round(35 weight_kg)
\* + max(0, round(minutes / 30)) * {0, 200, 400, 600}[activity_level]
\* + (300 when temp_c >= 30 or humidity_pct >= 70), capped by the clinician
\* limit when set, else by 2000 when 'ckd' or 'hf' is a condition; the
\* three-argument computeGoalMl is the same with no climate, limit or
\* condition.  70 kg, Moderate, 60 minutes gives 3250; 10 kg Sedentary 1200.
C6_GoalFormula ==
    (fn.op = "computeGoalMl" /\ fn.ctx.activity_level \in Levels) =>
       /\ fn.out = Max(1200, Min(4000, C6_Capped(fn.ctx)))
       /\ C6_Plain(fn.ctx) => fn.out2 = fn.out
       /\ fn.out2 = Max(1200, Min(4000,
             C6_Uncapped([fn.ctx EXCEPT !.temp_c = Null, !.humidity_pct = Null])))
       /\ (/\ C6_Plain(fn.ctx) /\ fn.ctx.weight_kg = 700
           /\ fn.ctx.activity_level = "Moderate"
           /\ fn.ctx.daily_activity_minutes = 60) => fn.out = 3250
       /\ (/\ C6_Plain(fn.ctx) /\ fn.ctx.weight_kg = 100
           /\ fn.ctx.activity_level = "Sedentary") => fn.out = 1200

\* 70 kg, Moderate, 60 minutes: 2450 + 2 * 400 = 3250.
C6_Witness ==
    /\ fn.op = "computeGoalMl" /\ C6_Plain(fn.ctx)
    /\ fn.ctx.weight_kg = 700 /\ fn.ctx.activity_level = "Moderate"
    /\ fn.ctx.daily_activity_minutes = 60
    /\ fn.out = 3250 /\ fn.out2 = 3250

\* C7: in every handler variant the daily goal used to compute remaining_ml,
\* to decide and to report is an integer in [1200, 4000]; a goal of the AI
\* planner is re-clamped to [1200, 4000] before it is used.
C7_GoalInRange ==
    /\ (Answered(last) /\ last.src # "none") => last.goal_ml \in 1200..4000
    /\ \A k \in 1..MaxReq :
          (reqs[k].pc \in {"rephrase", "send"}) => reqs[k].goal_ml \in 1200..4000

C8_MorningShare(a) ==
    CASE a = "Heavy" -> 25 [] a = "Moderate" -> 30 [] OTHER -> 35

C8_AfternoonShare(a) ==
    CASE a = "Heavy" -> 55 [] a = "Moderate" -> 50 [] OTHER -> 45

\* The fraction f of the schedule s is the number p / 100.
C8_IsPercent(f, s, p) == 100 * f.n = p * f.k * s.durMs

C8_InUnit(f, s) == 0 <= f.n /\ f.n <= f.k * s.durMs

\* Everything the claim says of fractionAt but its value at sleep.
C8_Curve ==
    /\ C8_IsPercent(fn.atWake, fn.s, 0)
    /\ C8_InUnit(fn.f1, fn.s) /\ C8_InUnit(fn.f2, fn.s)
    /\ FracLeq(fn.f1, fn.f2)
    /\ (fn.s.wake < fn.s.sleep /\ 100 * (fn.t1 - fn.s.wake) = 33 * fn.s.durMs) =>
          C8_IsPercent(fn.f1, fn.s, C8_MorningShare(fn.act))
    /\ (fn.s.wake < fn.s.sleep /\ 100 * (fn.t2 - fn.s.wake) = 80 * fn.s.durMs) =>
          C8_IsPercent(fn.f2, fn.s, C8_MorningShare(fn.act) + C8_AfternoonShare(fn.act))

\* C8 as stated: for every activity level and every pair of wake and sleep
\* times fractionAt(wake) = 0, fractionAt(sleep) = 1, every value is in
\* [0, 1], fractionAt is non-decreasing, and at the 33% and 80% boundaries
\* its value is the morning and the morning + afternoon share.
C8_Original ==
    fn.op = "fractionAt" => (C8_Curve /\ C8_IsPercent(fn.atSleep, fn.s, 100))

\* C8 amended: as C8_Original, except that fractionAt(sleep) = 1 when sleep
\* is later than wake and fractionAt(sleep) = 0 when it is not.
C8_Schedule ==
    fn.op = "fractionAt" =>
       /\ C8_Curve
       /\ fn.s.wake < fn.s.sleep => C8_IsPercent(fn.atSleep, fn.s, 100)
       /\ fn.s.wake >= fn.s.sleep => C8_IsPercent(fn.atSleep, fn.s, 0)

\* Two times exactly on the two phase boundaries of a day from 07:00 to 23:40.
C8_Witness ==
    /\ fn.op = "fractionAt"
    /\ fn.s.wake < fn.s.sleep
    /\ 100 * (fn.t1 - fn.s.wake) = 33 * fn.s.durMs
    /\ 100 * (fn.t2 - fn.s.wake) = 80 * fn.s.durMs
    /\ fn.act = "Heavy"
    /\ C8_IsPercent(fn.f1, fn.s, 25) /\ C8_IsPercent(fn.f2, fn.s, 80)
    /\ C8_IsPercent(fn.atSleep, fn.s, 100)

C9_Expected(r) ==
    LET third == RoundDiv(Max(0, r.target_ml_now - Val(r.ml)), 3)
        lo == CASE r.act = "Heavy" -> 200 [] r.act = "Moderate" -> 180 [] OTHER -> 150
        hi == CASE r.act = "Heavy" -> 300 [] r.act = "Moderate" -> 250 [] OTHER -> 220
    IN  Max(lo, Min(third, hi))

\* C9: whenever the rule-based engine (the rule-based handlers and the
\* fallback plan) produces a sip recommendation, next_sip_ml =
\* clamp(round(max(0, target_ml_now - ml) / 3), baseMin, baseMax) with
\* (200, 300) for Heavy, (180, 250) for Moderate, (150, 220) otherwise.
C9_SipFormula ==
    (Answered(last) /\ RuleBased(last) /\ last.sent /\ last.act \in Levels) =>
       last.next_sip_ml = C9_Expected(last)

\* C10: in every handler variant the activity level that reaches the goal
\* calculator, the schedule and the sip sizing is one of Sedentary, Light,
\* Moderate, Heavy, whatever string the profile or the environment supplies.
C10_ActivityIsLevel ==
    /\ (Answered(last) /\ last.src # "none") => last.act \in Levels
    /\ fn.op = "normalizeActivity" => fn.out \in Levels

\* C11: in the AI handlers, whenever the text-generation call fails
\* (network error, no content, unparseable content, or a parsed reply with a
\* required field missing), the plan used for the decision is the one
\* fallbackPlan computes for the same reading and time, and the failure is
\* never answered with a 500.
C11_FallbackOnFailure ==
    (Answered(last) /\ last.reply \in {"failed", "incomplete"}) =>
       LET fb == fallbackOf(last, cfg, last.arrived) IN
       /\ last.goal_ml = fb.goal_ml
       /\ last.target_ml_now = fb.target_ml_now
       /\ last.next_sip_ml = fb.next_sip_ml
       /\ last.should_notify = fb.should_notify
       /\ last.nan = {}
       /\ last.status = 500 => last.sent

\* C12: every plan aiPlan returns has goal_ml in [800, 6000], target_ml_now
\* in [0, goal_ml], next_sip_ml in [120, 300], should_notify a boolean and a
\* reason of at most 140 characters, whatever the fields of the reply are
\* (missing, negative, huge or not numbers).
C12_Sanitised ==
    fn.op = "aiPlan" =>
       /\ fn.out.nan = {}
       /\ fn.out.goal_ml \in 800..6000
       /\ fn.out.target_ml_now \in 0..fn.out.goal_ml
       /\ fn.out.next_sip_ml \in 120..300
       /\ fn.out.should_notify \in BOOLEAN
       /\ Len(fn.out.reason) <= 140

\* Request id leaves its await of the send in this step.
SendEnds(id) == reqs[id].pc = "send" /\ reqs'[id].pc = "done"

\* C13: when the send throws, the request is answered 500 'server_error'
\* and the recipient's timestamp is left unchanged, so a later request is
\* not rate-limited by the failed attempt (an 'interval' answer always has a
\* returned send of its instance less than the interval before it); the
\* timestamp is written exactly when the send returns without throwing, at
\* the time of that return.
C13_SendFailure ==
    /\ [](Answered(last) /\ last.body = "interval" =>
            \E k \in 1..Len(sends) :
                /\ sends[k].inst = last.inst
                /\ ~IsNull(sends[k].wrote)
                /\ last.arrived - Val(sends[k].wrote) < getConfig(cfg).MIN_INTERVAL_MIN)
    /\ [][/\ (\E id \in 1..MaxReq : SendEnds(id) /\ last'.status = 500) =>
                (last'.body = "server_error" /\ lastNotified' = lastNotified)
          /\ (\E id \in 1..MaxReq : SendEnds(id) /\ last'.status # 500) =>
                /\ last'.status = 200 /\ last'.body = "notified"
                /\ lastNotified'[last'.inst][Val(cfg.CHAT_ID)] = clock
                /\ clock >= last'.arrived
          /\ lastNotified' # lastNotified =>
                \E id \in 1..MaxReq : SendEnds(id) /\ last'.body = "notified"]_vars

\* A send that threw, and less than the interval later a request of the
\* same instance that notified.
C13_Witness ==
    \E i, j \in 1..Len(sends) :
        /\ i < j
        /\ sends[i].inst = sends[j].inst
        /\ IsNull(sends[i].wrote) /\ reqs[sends[i].id].pc = "done"
        /\ ~IsNull(sends[j].wrote)
        /\ sends[j].at - sends[i].at < getConfig(cfg).MIN_INTERVAL_MIN

\* The map changes only in a step that ends a request with notified:true,
\* that step writes the recipient's entry, and no step removes an entry.
C14_MapFrame ==
    /\ lastNotified' # lastNotified =>
          (Answered(last') /\ last'.status = 200 /\ last'.body = "notified")
    /\ (last' # last /\ Answered(last') /\ last'.body = "notified") =>
          Val(cfg.CHAT_ID) \in DOMAIN lastNotified'[last'.inst]
    /\ \A i \in Instances : DOMAIN lastNotified[i] \subseteq DOMAIN lastNotified'[i]

\* C14 as stated: every request that ends with a response other than
\* notified:true has issued no send call and leaves the lastNotified map
\* unchanged; an entry is written for the recipient on every request that
\* ends with notified:true, and no entry is ever removed.
C14_Original ==
    /\ []((Answered(last) /\ last.body # "notified") => ~last.sent)
    /\ [][C14_MapFrame]_vars

\* C14 amended: as C14_Original, except that a request answered 500
\* 'server_error' may have issued a send call (the one that threw).
C14_Frame ==
    /\ []((Answered(last) /\ last.body # "notified" /\ last.body # "server_error")
             => ~last.sent)
    /\ []((Answered(last) /\ last.sent) => last.body \in {"notified", "server_error"})
    /\ [][C14_MapFrame]_vars

\* A request is answered 400 while the map of its instance holds an entry.
C14_Witness ==
    /\ Answered(last) /\ last.status = 400 /\ ~last.sent
    /\ lastNotified[last.inst] # <<>>

\* The schedule of a request of the payload-profile handler, with wake and
\* sleep read from the profile or defaulting to 07:00 and 23:00 of the day
\* on which the request arrived.
C15_Schedule(r) ==
    LET w == parseHM1(r.profile.p.wake_time, r.arrived)
        s == parseHM1(r.profile.p.sleep_time, r.arrived)
    IN  Schedule(r.act,
                 IF w = Null THEN DayStart(r.arrived) + 7 * 60 ELSE Val(w),
                 IF s = Null THEN DayStart(r.arrived) + 23 * 60 ELSE Val(s))

\* C15: in the handler that takes the profile from the payload,
\* target_ml_now = round(goal_ml * fractionAt(t)) with t the instant the
\* request arrived, for every profile, also one with no or an invalid
\* wake_time or sleep_time; a request arriving between wake and sleep, with
\* a third of the day gone and a goal above zero, gets a target above zero.
C15_TargetAtArrival ==
    (Answered(last) /\ cfg.variant = 1 /\ last.src = "rule") =>
       LET s == C15_Schedule(last) IN
       /\ last.target_ml_now = targetMlNow(last.goal_ml, s, last.arrived)
       /\ (/\ s.wake < last.arrived /\ last.arrived < s.sleep
           /\ 3 * (last.arrived - s.wake) >= s.sleep - s.wake
           /\ last.goal_ml > 0) => last.target_ml_now > 0

\* The clinician limit configured for request r: the profile's in the
\* payload-profile handler, CLINICIAN_LIMIT_ML in the AI handlers.
C16_Limit(r) ==
    IF cfg.variant = 1 THEN r.profile.p.clinician_limit_ml
    ELSE IF cfg.variant \in {3, 4} THEN cfg.CLINICIAN_LIMIT_ML
    ELSE Null

\* C16: whenever a clinician limit is configured, the daily goal used for
\* the decision never exceeds it: in the rule-based goal calculator (also
\* when the limit is below 1200) and in the fallback plan of the AI handlers.
C16_ClinicianCap ==
    (Answered(last) /\ RuleBased(last) /\ C16_Limit(last) # Null) =>
       last.goal_ml <= Val(C16_Limit(last))

\* Hour h lies in the window from start to end, which wraps midnight when
\* start > end.
C17_InConfiguredWindow(h, start, end) ==
    IF start > end THEN h >= start \/ h < end ELSE start <= h /\ h < end

\* C17: for every configured pair of quiet hours a request is skipped as
\* 'quiet_hours' only when its hour lies inside the window from
\* quiet_start_hour to quiet_end_hour (wrapping midnight when start > end);
\* with a window that does not wrap (1 to 6) a request at an hour outside it
\* proceeds to the later gates.
C17_QuietWindow ==
    (Answered(last) /\ ValidRequest(last)) =>
       (last.body = "quiet_hours" <=>
           C17_InConfiguredWindow(HourOf(last), getConfig(cfg).QUIET_START,
                                  getConfig(cfg).QUIET_END))

====
